---- MODULE Spec2Model ----
(***************************************************************************)
(* A model of the simulation core of src/main.cpp: the Body record, the    *)
(* collision engine (checkCollision / resolvePlatformCollision), the       *)
(* player controller, the scripted movers and the per-frame loop.          *)
(*                                                                         *)
(* Numbers.  The program computes in float.  The model computes in         *)
(* integers on a fixed grid: the frame time is dt = 1/TargetFPS seconds,   *)
(* a velocity is counted in 1/VelGrid of a world unit per second and a     *)
(* position or size in 1/(VelGrid * TargetFPS) of a world unit, so that    *)
(* "x += velocity * dt" is "x + velocity" on the grid, "(x - prevX) / dt"  *)
(* is "x - prevX", and gravity * dt is a whole number for both gravities   *)
(* of the program (900 and 800).                                           *)
(***************************************************************************)
EXTENDS Integers, Sequences, FiniteSets, TLC

\* Engine::setTargetFPS(60): the frame time is 1/60 s.
TargetFPS == 60

\* Velocity grid points per world unit per second.
VelGrid == TargetFPS \div 20

\* Grid value of a velocity given in world units per second.
V(u) == u * VelGrid

\* Grid value of a length given in world units.
W(u) == u * VelGrid * TargetFPS

\* Grid value of the velocity gained in one frame under acceleration g.
PerFrame(g) == (g * VelGrid) \div TargetFPS

Abs(v) == IF v < 0 THEN -v ELSE v

\* The dead zone of the rider carry, 0.1 world units, on the grid.
CarryDeadZone == (VelGrid * TargetFPS) \div 10

----------------------------------------------------------------------------
(* BodyComponent *)

Body(x, y, w, h) ==
  [x |-> x, y |-> y, width |-> w, height |-> h,
   velocityX |-> 0, velocityY |-> 0, prevX |-> x, prevY |-> y]

getVelocityX(b) == b.x - b.prevX

----------------------------------------------------------------------------
(* CollisionSystem *)

\* Variants of checkCollision with a slipped comparison.
checkCollision_Lopsided(a, b) ==
  /\ a.x <= b.x + b.width
  /\ a.x + a.width > b.x
  /\ a.y < b.y + b.height
  /\ a.y + a.height > b.y

checkCollision_Touching(a, b) ==
  /\ a.x <= b.x + b.width
  /\ a.x + a.width >= b.x
  /\ a.y <= b.y + b.height
  /\ a.y + a.height >= b.y

checkCollision(a, b) ==
  /\ a.x < b.x + b.width
  /\ a.x + a.width > b.x
  /\ a.y < b.y + b.height
  /\ a.y + a.height > b.y

\* Variants of resolvePlatformCollision, each with one slip:
\*   "nosnap"  the push out from below leaves y as it is,
\*   "keepvy"  a landing keeps the fall speed,
\*   "tie"     equal penetrations resolve horizontally,
\*   "push"    a horizontal resolution also shifts the obstacle.
resolveVariant(player, platform, pvx, slip) ==
  LET overlapLeft   == (player.x + player.width) - platform.x
      overlapRight  == (platform.x + platform.width) - player.x
      overlapTop    == (player.y + player.height) - platform.y
      overlapBottom == (platform.y + platform.height) - player.y
      fromLeft      == Abs(overlapLeft) < Abs(overlapRight)
      fromTop       == Abs(overlapTop) < Abs(overlapBottom)
      minOverlapX   == IF fromLeft THEN overlapLeft ELSE overlapRight
      minOverlapY   == IF fromTop THEN overlapTop ELSE overlapBottom
      horizontal    == IF slip = "tie"
                       THEN Abs(minOverlapX) <= Abs(minOverlapY)
                       ELSE Abs(minOverlapX) < Abs(minOverlapY)
  IN  IF horizontal
      THEN [player   |-> [player EXCEPT
                            !.x = IF fromLeft
                                  THEN platform.x - player.width
                                  ELSE platform.x + platform.width,
                            !.velocityX = 0],
            platform |-> IF slip = "push"
                         THEN [platform EXCEPT !.x = platform.x + minOverlapX]
                         ELSE platform,
            landed   |-> FALSE]
      ELSE IF fromTop
      THEN [player   |-> [player EXCEPT
                            !.y = platform.y - player.height,
                            !.velocityY = IF slip = "keepvy"
                                          THEN player.velocityY ELSE 0,
                            !.x = IF Abs(pvx) > CarryDeadZone
                                  THEN player.x + pvx
                                  ELSE player.x],
            platform |-> platform,
            landed   |-> TRUE]
      ELSE [player   |-> [player EXCEPT
                            !.y = IF slip = "nosnap" THEN player.y
                                  ELSE platform.y + platform.height,
                            !.velocityY = 0],
            platform |-> platform,
            landed   |-> FALSE]

resolve_NoSnapBelow(player, platform, pvx) ==
  resolveVariant(player, platform, pvx, "nosnap")

resolve_KeepFallSpeed(player, platform, pvx) ==
  resolveVariant(player, platform, pvx, "keepvy")

resolve_TieHorizontal(player, platform, pvx) ==
  resolveVariant(player, platform, pvx, "tie")

resolve_PushObstacle(player, platform, pvx) ==
  resolveVariant(player, platform, pvx, "push")

\* The result is the pair of bodies the two pointers refer to after the
\* call, and the returned flag.
resolvePlatformCollision(player, platform, pvx) ==
  LET overlapLeft   == (player.x + player.width) - platform.x
      overlapRight  == (platform.x + platform.width) - player.x
      overlapTop    == (player.y + player.height) - platform.y
      overlapBottom == (platform.y + platform.height) - player.y
      fromLeft      == Abs(overlapLeft) < Abs(overlapRight)
      fromTop       == Abs(overlapTop) < Abs(overlapBottom)
      minOverlapX   == IF fromLeft THEN overlapLeft ELSE overlapRight
      minOverlapY   == IF fromTop THEN overlapTop ELSE overlapBottom
  IN  IF Abs(minOverlapX) < Abs(minOverlapY)
      THEN [player   |-> [player EXCEPT
                            !.x = IF fromLeft
                                  THEN platform.x - player.width
                                  ELSE platform.x + platform.width,
                            !.velocityX = 0],
            platform |-> platform,
            landed   |-> FALSE]
      ELSE IF fromTop
      THEN [player   |-> [player EXCEPT
                            !.y = platform.y - player.height,
                            !.velocityY = 0,
                            !.x = IF Abs(pvx) > CarryDeadZone
                                  THEN player.x + pvx
                                  ELSE player.x],
            platform |-> platform,
            landed   |-> TRUE]
      ELSE [player   |-> [player EXCEPT
                            !.y = platform.y + platform.height,
                            !.velocityY = 0],
            platform |-> platform,
            landed   |-> FALSE]

----------------------------------------------------------------------------
(* Program constants of ControllerComponent (world units). *)

speed == 300
jumpForce == 275
gravity == 900
deathHeight == 800
spawnX == 100
spawnY == 400

----------------------------------------------------------------------------
(* Scancodes read by ControllerComponent::update. *)

LeftKeys == {"A", "LEFT"}
RightKeys == {"D", "RIGHT"}
JumpKeys == {"SPACE", "UP"}

\* InputSystem::isKeyPressed
isKeyPressed(cur, key) == key \in cur

\* A level-triggered variant: true for as long as the key is held.
isKeyJustPressed_Held(cur, prev, key) == key \in cur

\* InputSystem::isKeyJustPressed
isKeyJustPressed(cur, prev, key) == key \in cur /\ key \notin prev

----------------------------------------------------------------------------
(* GameObject: an ordered list of components.  The state of an entity's    *)
(* components is kept per entity: its Body (NoBody if it has none), the    *)
(* state of its scripted mover, and the state of its controller.           *)

NoBody == [none |-> TRUE]
NoObj == 0

\* A variant that returns the last component of the kind.
get_Last(o, kind) ==
  IF \E k \in 1 .. Len(o.components) : o.components[k] = kind
  THEN CHOOSE k \in 1 .. Len(o.components) :
         /\ o.components[k] = kind
         /\ \A j \in (k + 1) .. Len(o.components) : o.components[j] # kind
  ELSE 0

\* GameObject::get<T>: the first component of the kind, 0 if there is none.
get(o, kind) ==
  IF \E k \in 1 .. Len(o.components) : o.components[k] = kind
  THEN CHOOSE k \in 1 .. Len(o.components) :
         /\ o.components[k] = kind
         /\ \A j \in 1 .. (k - 1) : o.components[j] # kind
  ELSE 0

has(o, kind) == get(o, kind) # 0

\* A variant that is constructed grounded.
Controller0_Grounded ==
  [m_grounded |-> TRUE, m_onPlatform |-> FALSE, m_isDead |-> FALSE,
   m_attachedPlatform |-> NoObj, m_lastPlatformX |-> 0]

\* The controller's fields as constructed.
Controller0 ==
  [m_grounded |-> FALSE, m_onPlatform |-> FALSE, m_isDead |-> FALSE,
   m_attachedPlatform |-> NoObj, m_lastPlatformX |-> 0]

\* The scripted movers' fields as constructed: movingRight = true of
\* Patrol and HorizontalMove, baseY = 0 and time = 0 of Bounce (time is
\* counted in frames).
Motion0 == [movingRight |-> TRUE, baseY |-> 0, time |-> 0]

\* XMLParser::createGameObject, type "player".
PlayerObj(x, y, w, h) ==
  [components |-> <<"Body", "Sprite", "Controller">>, isActive |-> TRUE,
   body |-> Body(x, y, w, h), leftBound |-> 0, rightBound |-> 0, speed |-> 0]

\* XMLParser::createGameObject, type "platform".
PlatformObj(x, y, w, h) ==
  [components |-> <<"Body", "Solid", "Sprite">>, isActive |-> TRUE,
   body |-> Body(x, y, w, h), leftBound |-> 0, rightBound |-> 0, speed |-> 0]

\* XMLParser::createGameObject, type "moving_platform".
MovingPlatformObj(x, y, w, h, left, right, spd) ==
  [components |-> <<"Body", "Solid", "Sprite", "HorizontalMove">>,
   isActive |-> TRUE, body |-> Body(x, y, w, h),
   leftBound |-> left, rightBound |-> right, speed |-> spd]

\* XMLParser::createGameObject, type "enemy".
EnemyObj(x, y, w, h, left, right, spd) ==
  [components |-> <<"Body", "Enemy", "Sprite", "Patrol">>,
   isActive |-> TRUE, body |-> Body(x, y, w, h),
   leftBound |-> left, rightBound |-> right, speed |-> spd]

\* XMLParser::createGameObject, type "flying_enemy".  The frequency is the
\* one that turns the sine's argument by a quarter turn per frame.
FlyingEnemyObj(x, y, w, h, amp) ==
  [components |-> <<"Body", "Enemy", "Sprite", "Bounce">>,
   isActive |-> TRUE, body |-> Body(x, y, w, h),
   leftBound |-> 0, rightBound |-> 0, speed |-> 0, amplitude |-> amp]

\* XMLParser::createGameObject, type "tiling_background".
BackgroundObj ==
  [components |-> <<"TilingBackground">>, isActive |-> TRUE,
   body |-> NoBody, leftBound |-> 0, rightBound |-> 0, speed |-> 0]

\* An entity whose public isActive flag has been cleared (nothing in the
\* program clears it).
Inactive(o) == [o EXCEPT !.isActive = FALSE]

\* An entity assembled with GameObject::add: every Body-dependent
\* behaviour and no Body.
BodylessObj(left, right, spd, amp) ==
  [components |-> <<"Sprite", "Physics", "Controller", "Patrol", "Bounce",
                    "HorizontalMove">>,
   isActive |-> TRUE, body |-> NoBody,
   leftBound |-> left, rightBound |-> right, speed |-> spd,
   amplitude |-> amp]

\* An entity assembled with GameObject::add: a hazard under gravity.
PhysicsEnemyObj(x, y, w, h) ==
  [components |-> <<"Body", "Enemy", "Physics">>, isActive |-> TRUE,
   body |-> Body(x, y, w, h), leftBound |-> 0, rightBound |-> 0, speed |-> 0]

\* An entity assembled with GameObject::add: a hazard that is also solid
\* (XMLParser::createGameObject builds no such entity).
SolidEnemyObj(x, y, w, h) ==
  [components |-> <<"Body", "Solid", "Enemy">>, isActive |-> TRUE,
   body |-> Body(x, y, w, h), leftBound |-> 0, rightBound |-> 0, speed |-> 0]

\* An entity assembled with GameObject::add: a Body, then a
\* PhysicsComponent (XMLParser::createGameObject builds no such entity).
PhysicsObj(x, y, w, h) ==
  [components |-> <<"Body", "Physics">>, isActive |-> TRUE,
   body |-> Body(x, y, w, h), leftBound |-> 0, rightBound |-> 0, speed |-> 0]

----------------------------------------------------------------------------
(* Component updates.  Each takes the simulation state                     *)
(*   s = [body, motion, ctl]  (functions of the entity index)              *)
(* and the index i of the owning entity, and gives the state after the     *)
(* call.                                                                   *)

\* BodyComponent::update
BodyUpdate(s, i) ==
  LET b == s.body[i]
  IN  [s EXCEPT !.body[i] =
         [b EXCEPT !.prevX = b.x, !.prevY = b.y,
                   !.x = b.x + b.velocityX, !.y = b.y + b.velocityY]]

\* The gravity of PhysicsComponent (units per second squared).
physicsGravity == 800

\* A variant with a terminal velocity of two frames of gravity.
PhysicsUpdate_Clamped(s, i) ==
  LET b == s.body[i]
  IN  IF b = NoBody
      THEN s
      ELSE LET vy0 == b.velocityY + PerFrame(physicsGravity)
               vy  == IF vy0 > 2 * PerFrame(physicsGravity)
                      THEN 2 * PerFrame(physicsGravity) ELSE vy0
           IN  [s EXCEPT !.body[i] = [b EXCEPT !.velocityY = vy,
                                               !.y = b.y + vy]]

\* PhysicsComponent::update
PhysicsUpdate(s, i) ==
  LET b == s.body[i]
  IN  IF b = NoBody
      THEN s
      ELSE LET vy == b.velocityY + PerFrame(physicsGravity)
           IN  [s EXCEPT !.body[i] = [b EXCEPT !.velocityY = vy,
                                               !.y = b.y + vy]]

\* A variant that keeps the body's velocity.
respawn_KeepVelocity(s, i) ==
  LET c == [s.ctl[i] EXCEPT !.m_isDead = FALSE, !.m_attachedPlatform = NoObj]
  IN  IF s.body[i] = NoBody
      THEN [s EXCEPT !.ctl[i] = c]
      ELSE [s EXCEPT !.ctl[i] = c,
                     !.body[i] = [s.body[i] EXCEPT
                                    !.x = W(spawnX), !.y = W(spawnY)]]

\* A variant that leaves the dead flag as it finds it.
respawn_StayDead(s, i) ==
  LET c == [s.ctl[i] EXCEPT !.m_attachedPlatform = NoObj]
  IN  IF s.body[i] = NoBody
      THEN [s EXCEPT !.ctl[i] = c]
      ELSE [s EXCEPT !.ctl[i] = c,
                     !.body[i] = [s.body[i] EXCEPT
                                    !.x = W(spawnX), !.y = W(spawnY),
                                    !.velocityX = 0, !.velocityY = 0]]

\* ControllerComponent::respawn
respawn(s, i) ==
  LET c == [s.ctl[i] EXCEPT !.m_isDead = FALSE, !.m_attachedPlatform = NoObj]
  IN  IF s.body[i] = NoBody
      THEN [s EXCEPT !.ctl[i] = c]
      ELSE [s EXCEPT !.ctl[i] = c,
                     !.body[i] = [s.body[i] EXCEPT
                                    !.x = W(spawnX), !.y = W(spawnY),
                                    !.velocityX = 0, !.velocityY = 0]]

\* A variant that marks the player dead and detached but leaves the body
\* where it is.
die_NoRespawn(s, i) ==
  [s EXCEPT !.ctl[i] = [s.ctl[i] EXCEPT !.m_isDead = TRUE,
                                       !.m_attachedPlatform = NoObj]]

\* A variant that also clears onPlatform.
die_ClearsOnPlatform(s, i) ==
  respawn([s EXCEPT !.ctl[i] = [s.ctl[i] EXCEPT !.m_isDead = TRUE,
                                               !.m_onPlatform = FALSE,
                                               !.m_attachedPlatform = NoObj]],
          i)

\* ControllerComponent::die
die(s, i) ==
  respawn([s EXCEPT !.ctl[i] = [s.ctl[i] EXCEPT !.m_isDead = TRUE,
                                               !.m_attachedPlatform = NoObj]],
          i)

\* A variant that attaches without taking the platform's x as the baseline.
setOnPlatform_NoBaseline(s, i, onPlatform, platform) ==
  LET c == s.ctl[i]
  IN  IF onPlatform /\ platform # NoObj
      THEN [s EXCEPT !.ctl[i] =
              [c EXCEPT !.m_onPlatform = onPlatform,
                        !.m_attachedPlatform = platform]]
      ELSE IF ~onPlatform
      THEN [s EXCEPT !.ctl[i] = [c EXCEPT !.m_onPlatform = onPlatform,
                                          !.m_attachedPlatform = NoObj]]
      ELSE [s EXCEPT !.ctl[i] = [c EXCEPT !.m_onPlatform = onPlatform]]

\* ControllerComponent::setOnPlatform
setOnPlatform(s, i, onPlatform, platform) ==
  LET c == s.ctl[i]
  IN  IF onPlatform /\ platform # NoObj
      THEN [s EXCEPT !.ctl[i] =
              [c EXCEPT !.m_onPlatform = onPlatform,
                        !.m_attachedPlatform = platform,
                        !.m_lastPlatformX =
                           IF s.body[platform] # NoBody
                           THEN s.body[platform].x
                           ELSE c.m_lastPlatformX]]
      ELSE IF ~onPlatform
      THEN [s EXCEPT !.ctl[i] = [c EXCEPT !.m_onPlatform = onPlatform,
                                          !.m_attachedPlatform = NoObj]]
      ELSE [s EXCEPT !.ctl[i] = [c EXCEPT !.m_onPlatform = onPlatform]]

\* ControllerComponent::isGrounded
isGrounded(c) == c.m_grounded \/ c.m_onPlatform

\* A variant of the jump condition that does not ask for ground contact.
JumpGuard_Airborne(c, cur, prev) ==
  \E k \in JumpKeys : isKeyJustPressed(cur, prev, k)

\* The jump condition of ControllerComponent::update.
JumpGuard(c, cur, prev) ==
  /\ \E k \in JumpKeys : isKeyJustPressed(cur, prev, k)
  /\ (c.m_grounded \/ c.m_onPlatform)

\* A variant in which left wins when both directions are held.
HorizontalInput_LeftWins(cur) ==
  IF \E k \in LeftKeys : isKeyPressed(cur, k) THEN -V(speed)
  ELSE IF \E k \in RightKeys : isKeyPressed(cur, k) THEN V(speed)
  ELSE 0

\* ControllerComponent::update, the horizontal input: velocityX = 0, then
\* -speed if A or LEFT is down, then +speed if D or RIGHT is down.
HorizontalInput(cur) ==
  LET vxL == IF \E k \in LeftKeys : isKeyPressed(cur, k)
             THEN -V(speed) ELSE 0
  IN  IF \E k \in RightKeys : isKeyPressed(cur, k) THEN V(speed) ELSE vxL

\* ControllerComponent::update
ControllerUpdate(s, i, cur, prev) ==
  LET b == s.body[i]
      c == s.ctl[i]
  IN  IF b = NoBody \/ c.m_isDead
      THEN s
      ELSE
        LET vx   == HorizontalInput(cur)
            jump == JumpGuard(c, cur, prev)
            c1   == IF jump
                    THEN [c EXCEPT !.m_grounded = FALSE,
                                   !.m_onPlatform = FALSE,
                                   !.m_attachedPlatform = NoObj]
                    ELSE c
            vy   == (IF jump THEN -V(jumpForce) ELSE b.velocityY)
                    + PerFrame(gravity)
            y1   == b.y + vy
            att  == c1.m_attachedPlatform
            pb   == IF att # NoObj THEN s.body[att] ELSE NoBody
            x1   == IF att # NoObj
                    THEN (IF pb # NoBody
                          THEN b.x + (pb.x - c1.m_lastPlatformX)
                          ELSE b.x)
                    ELSE b.x + vx
            last == IF att # NoObj /\ pb # NoBody
                    THEN pb.x ELSE c1.m_lastPlatformX
            s1   == [s EXCEPT
                       !.body[i] = [b EXCEPT !.velocityX = vx,
                                             !.velocityY = vy,
                                             !.x = x1, !.y = y1],
                       !.ctl[i] = [c1 EXCEPT !.m_lastPlatformX = last,
                                             !.m_grounded = FALSE,
                                             !.m_onPlatform = FALSE]]
        IN  IF y1 > W(deathHeight) THEN respawn(s1, i) ELSE s1

\* A variant that turns the mover to the left when its entity has no Body.
ShuttleStep_TurnsWithoutBody(s, i, o) ==
  LET b == s.body[i]
      m == s.motion[i]
  IN  IF b = NoBody
      THEN [s EXCEPT !.motion[i] = [m EXCEPT !.movingRight = FALSE]]
      ELSE
        LET movement == IF m.movingRight THEN o.speed ELSE -o.speed
            x1  == b.x + movement
            mr1 == IF x1 >= o.rightBound - b.width THEN FALSE
                   ELSE m.movingRight
            mr2 == IF x1 <= o.leftBound THEN TRUE ELSE mr1
        IN  [s EXCEPT
               !.body[i] = [b EXCEPT !.prevX = b.x, !.x = x1,
                                     !.velocityX = x1 - b.x],
               !.motion[i] = [m EXCEPT !.movingRight = mr2]]

\* The reversal policy shared by PatrolBehaviorComponent::update and
\* HorizontalMoveBehaviorComponent::update (the two bodies are the same code).
ShuttleStep(s, i, o) ==
  LET b == s.body[i]
      m == s.motion[i]
  IN  IF b = NoBody
      THEN s
      ELSE
        LET movement == IF m.movingRight THEN o.speed ELSE -o.speed
            x1  == b.x + movement
            mr1 == IF x1 >= o.rightBound - b.width THEN FALSE
                   ELSE m.movingRight
            mr2 == IF x1 <= o.leftBound THEN TRUE ELSE mr1
        IN  [s EXCEPT
               !.body[i] = [b EXCEPT !.prevX = b.x, !.x = x1,
                                     !.velocityX = x1 - b.x],
               !.motion[i] = [m EXCEPT !.movingRight = mr2]]

\* PatrolBehaviorComponent::update
PatrolUpdate(s, i, o) == ShuttleStep(s, i, o)

\* HorizontalMoveBehaviorComponent::update
HorizontalMoveUpdate(s, i, o) == ShuttleStep(s, i, o)

\* std::sin at a whole number k of quarter turns.
SinQuarter(k) ==
  CASE k % 4 = 1 -> 1
    [] k % 4 = 3 -> -1
    [] OTHER     -> 0

\* A variant that takes the baseline on every update.
BounceUpdate_AlwaysRebase(s, i, o) ==
  LET b == s.body[i]
      m == s.motion[i]
  IN  IF b = NoBody
      THEN s
      ELSE
        LET base == b.y
            tm   == m.time + 1
            y1   == base + o.amplitude * SinQuarter(tm)
        IN  [s EXCEPT
               !.body[i] = [b EXCEPT !.prevY = b.y, !.y = y1,
                                     !.velocityY = y1 - b.y],
               !.motion[i] = [m EXCEPT !.baseY = base, !.time = tm]]

\* BounceBehaviorComponent::update
BounceUpdate(s, i, o) ==
  LET b == s.body[i]
      m == s.motion[i]
  IN  IF b = NoBody
      THEN s
      ELSE
        LET base == IF m.baseY = 0 THEN b.y ELSE m.baseY
            tm   == m.time + 1
            y1   == base + o.amplitude * SinQuarter(tm)
        IN  [s EXCEPT
               !.body[i] = [b EXCEPT !.prevY = b.y, !.y = y1,
                                     !.velocityY = y1 - b.y],
               !.motion[i] = [m EXCEPT !.baseY = base, !.time = tm]]

\* Component::update, dispatched on the component's class.  The marker
\* components (Solid, Enemy) have empty updates; the Sprite's animation
\* timer is not simulation state.
ComponentUpdate(s, i, o, kind, cur, prev) ==
  CASE kind = "Body"           -> (IF s.body[i] = NoBody THEN s
                                   ELSE BodyUpdate(s, i))
    [] kind = "Physics"        -> PhysicsUpdate(s, i)
    [] kind = "Controller"     -> ControllerUpdate(s, i, cur, prev)
    [] kind = "Patrol"         -> PatrolUpdate(s, i, o)
    [] kind = "HorizontalMove" -> HorizontalMoveUpdate(s, i, o)
    [] kind = "Bounce"         -> BounceUpdate(s, i, o)
    [] OTHER                   -> s

\* GameObject::update: every component, in insertion order.
RECURSIVE UpdateFrom(_, _, _, _, _, _)
UpdateFrom(s, i, o, k, cur, prev) ==
  IF k > Len(o.components)
  THEN s
  ELSE UpdateFrom(ComponentUpdate(s, i, o, o.components[k], cur, prev),
                  i, o, k + 1, cur, prev)

GameObjectUpdate(s, i, o, cur, prev) == UpdateFrom(s, i, o, 1, cur, prev)

----------------------------------------------------------------------------
(* Game: the entity list and the frame loop. *)

\* frameStart and frameLog are history variables.  frameStart: the bodies and
\* controllers as they were when the current frame began, and the log of
\* the frame before.  frameLog: what the
\* current frame has done so far (the entities updated, the entities the
\* collision pass tested against the player, those whose resolution reported
\* landed-on-top, whether the pass called die(), and the entities drawn, in
\* the order of their draw calls).
VARIABLES objs, body, motion, ctl, m_currentKeys, m_previousKeys,
          viewCenter, pc, idx, frame, frameStart, frameLog

fvars == <<objs, body, motion, ctl, m_currentKeys, m_previousKeys,
           viewCenter, pc, idx, frame, frameStart, frameLog>>

FrameLog0 ==
  [updated |-> {}, tested |-> <<>>, landed |-> <<>>, died |-> FALSE,
   drawn |-> <<>>]

MaxFrames == 4

\* Keyboard states offered to InputSystem::update.
KeyChoices ==
  {{}, {"LEFT"}, {"A", "RIGHT"}, {"SPACE"}, {"SPACE", "UP"}, {"D", "UP"}}

\* The player of the scenes: 40 x 60 at the spawn point, its feet at y = 460.
ScenePlayer == PlayerObj(W(100), W(400), W(40), W(60))

\* A shuttle platform under the player's feet; it reverses after two frames.
SceneShuttle(spd) ==
  MovingPlatformObj(W(60), W(460), W(200), W(20), W(0), W(260) + 2 * spd, spd)

\* Initial entity lists (the scene file's order of entities is free).  The
\* first four put the player on a shuttle platform; then a floor with a
\* patrolling enemy, a floor with a wall, an enemy listed before the player
\* (it starts half a unit off the whole-unit grid: V(30) is 0.5 on the
\* position grid), a player one gravity step above the death height next to
\* a falling body with a PhysicsComponent, a solid hazard that reaches a
\* sixth of a unit into the player's first step, a frozen (inactive)
\* shuttle and enemy with a background, a player without a Body, two flying
\* enemies and no player (one starts at y = 0), a hazard under gravity
\* resting on a floor, and a player that starts below the spawn point on a
\* floor, inside a standing enemy listed after the floor.
Scenes ==
  { <<ScenePlayer, SceneShuttle(V(60))>>,
    <<SceneShuttle(V(60)), ScenePlayer>>,
    <<ScenePlayer, SceneShuttle(V(5))>>,
    <<SceneShuttle(V(5)), ScenePlayer>>,
    <<ScenePlayer, PlatformObj(W(0), W(460), W(300), W(20)),
      EnemyObj(W(150), W(430), W(30), W(30), W(100), W(182), V(60))>>,
    <<PlatformObj(W(0), W(460), W(300), W(20)),
      PlatformObj(W(143), W(300), W(20), W(160)), ScenePlayer>>,
    <<EnemyObj(W(150) + V(30), W(430), W(30), W(30), W(100), W(182), V(60)),
      ScenePlayer, PlatformObj(W(0), W(460), W(300), W(20))>>,
    <<PlayerObj(W(100), W(deathHeight) - PerFrame(gravity), W(40), W(60)),
      PhysicsObj(W(300), W(0), W(20), W(20))>>,
    <<ScenePlayer, SolidEnemyObj(W(90), W(460) + V(10), W(60), W(20)),
      PlatformObj(W(0), W(460), W(300), W(20))>>,
    <<ScenePlayer, Inactive(SceneShuttle(V(60))),
      Inactive(EnemyObj(W(150), W(430), W(30), W(30), W(100), W(182), V(60))),
      BackgroundObj>>,
    <<BodylessObj(W(0), W(100), V(60), W(10)),
      PlatformObj(W(0), W(460), W(300), W(20))>>,
    <<FlyingEnemyObj(W(0), W(0), W(30), W(30), W(10)),
      FlyingEnemyObj(W(50), W(100), W(30), W(30), W(10))>>,
    <<ScenePlayer, PlatformObj(W(0), W(460), W(300), W(20)),
      PhysicsEnemyObj(W(220), W(430), W(30), W(30))>>,
    <<PlayerObj(W(100), W(500), W(40), W(60)),
      PlatformObj(W(0), W(560), W(300), W(20)),
      EnemyObj(W(130), W(530), W(30), W(30), W(100), W(200), 0)>> }

Objs == 1 .. Len(objs)

\* Game::findPlayer: the first entity with a ControllerComponent.
findPlayer(os) ==
  IF \E i \in 1 .. Len(os) : has(os[i], "Controller")
  THEN CHOOSE i \in 1 .. Len(os) :
         /\ has(os[i], "Controller")
         /\ \A j \in 1 .. (i - 1) : ~has(os[j], "Controller")
  ELSE NoObj

Player == findPlayer(objs)

Sim == [body |-> body, motion |-> motion, ctl |-> ctl]

InitFrame ==
  /\ objs \in Scenes
  /\ body = [i \in 1 .. Len(objs) |->
               IF has(objs[i], "Body") THEN objs[i].body ELSE NoBody]
  /\ motion = [i \in 1 .. Len(objs) |-> Motion0]
  /\ ctl = [i \in 1 .. Len(objs) |-> Controller0]
  /\ m_currentKeys = {}
  /\ m_previousKeys = {}
  /\ viewCenter = [x |-> 0, y |-> 0]
  /\ pc = "input"
  /\ idx = 0
  /\ frame = 1
  /\ frameStart = [body |-> body, ctl |-> ctl, log |-> FrameLog0]
  /\ frameLog = FrameLog0

\* Game::run: InputSystem::update, the keyboard snapshot of the frame.
InputUpdate ==
  /\ pc = "input"
  /\ m_previousKeys' = m_currentKeys
  /\ m_currentKeys' \in KeyChoices
  /\ frameStart' = [body |-> body, ctl |-> ctl, log |-> frameLog]
  /\ frameLog' = FrameLog0
  /\ pc' = "update"
  /\ idx' = 1
  /\ UNCHANGED <<objs, body, motion, ctl, viewCenter, frame>>

\* A variant of the loop that stops after the first entity.
UpdateObj_FirstOnly ==
  /\ pc = "update"
  /\ idx \in Objs
  /\ LET s == IF objs[idx].isActive
              THEN GameObjectUpdate(Sim, idx, objs[idx],
                                    m_currentKeys, m_previousKeys)
              ELSE Sim
     IN  /\ body' = s.body
         /\ motion' = s.motion
         /\ ctl' = s.ctl
  /\ frameLog' = IF objs[idx].isActive
                 THEN [frameLog EXCEPT !.updated = @ \cup {idx}]
                 ELSE frameLog
  /\ pc' = "camera"
  /\ idx' = 0
  /\ UNCHANGED <<objs, m_currentKeys, m_previousKeys, viewCenter, frame,
                 frameStart>>

\* A variant of the loop that updates every entity, active or not.
UpdateObj_IgnoresActive ==
  /\ pc = "update"
  /\ idx \in Objs
  /\ LET s == GameObjectUpdate(Sim, idx, objs[idx],
                               m_currentKeys, m_previousKeys)
     IN  /\ body' = s.body
         /\ motion' = s.motion
         /\ ctl' = s.ctl
  /\ frameLog' = IF objs[idx].isActive
                 THEN [frameLog EXCEPT !.updated = @ \cup {idx}]
                 ELSE frameLog
  /\ IF idx = Len(objs)
     THEN pc' = "camera" /\ idx' = 0
     ELSE pc' = pc /\ idx' = idx + 1
  /\ UNCHANGED <<objs, m_currentKeys, m_previousKeys, viewCenter, frame,
                 frameStart>>

\* Game::update, one turn of the loop over m_gameObjects.
UpdateObj ==
  /\ pc = "update"
  /\ idx \in Objs
  /\ LET s == IF objs[idx].isActive
              THEN GameObjectUpdate(Sim, idx, objs[idx],
                                    m_currentKeys, m_previousKeys)
              ELSE Sim
     IN  /\ body' = s.body
         /\ motion' = s.motion
         /\ ctl' = s.ctl
  /\ frameLog' = IF objs[idx].isActive
                 THEN [frameLog EXCEPT !.updated = @ \cup {idx}]
                 ELSE frameLog
  /\ IF idx = Len(objs)
     THEN pc' = "camera" /\ idx' = 0
     ELSE pc' = pc /\ idx' = idx + 1
  /\ UNCHANGED <<objs, m_currentKeys, m_previousKeys, viewCenter, frame,
                 frameStart>>

\* Game::updateCamera
UpdateCamera ==
  /\ pc = "camera"
  /\ viewCenter' =
       IF Player # NoObj /\ body[Player] # NoBody
       THEN [x |-> body[Player].x + body[Player].width \div 2,
             y |-> body[Player].y + body[Player].height \div 2]
       ELSE viewCenter
  /\ pc' = "collide"
  /\ idx' = 0
  /\ UNCHANGED <<objs, body, motion, ctl, m_currentKeys, m_previousKeys,
                 frame, frameStart, frameLog>>

\* A variant of the ground loop that lands the enemy without stopping its
\* fall.
RECURSIVE EnemyGround_KeepsFallSpeed(_, _, _, _)
EnemyGround_KeepsFallSpeed(s, os, i, j) ==
  IF j > Len(os)
  THEN s
  ELSE
    LET e == s.body[i]
        g == s.body[j]
        s1 == IF /\ i # j
                 /\ ~has(os[j], "TilingBackground")
                 /\ g # NoBody
                 /\ has(os[j], "Solid")
                 /\ checkCollision(e, g)
                 /\ Abs((e.y + e.height) - g.y) < Abs((g.y + g.height) - e.y)
              THEN [s EXCEPT !.body[i] = [e EXCEPT !.y = g.y - e.height]]
              ELSE s
    IN  EnemyGround_KeepsFallSpeed(s1, os, i, j + 1)

\* Game::checkCollisions, the enemy-versus-ground loop for the enemy i
\* (run only for an enemy that has a PhysicsComponent), from index j on.
RECURSIVE EnemyGround(_, _, _, _)
EnemyGround(s, os, i, j) ==
  IF j > Len(os)
  THEN s
  ELSE
    LET e == s.body[i]
        g == s.body[j]
        s1 == IF /\ i # j
                 /\ ~has(os[j], "TilingBackground")
                 /\ g # NoBody
                 /\ has(os[j], "Solid")
                 /\ checkCollision(e, g)
                 /\ Abs((e.y + e.height) - g.y) < Abs((g.y + g.height) - e.y)
              THEN [s EXCEPT !.body[i] = [e EXCEPT !.y = g.y - e.height,
                                                   !.velocityY = 0]]
              ELSE s
    IN  EnemyGround(s1, os, i, j + 1)

\* A variant of the loop body that passes over inactive entities.
CollideWith_SkipsInactive(s, os, p, i) ==
  LET o == os[i]
      ob == s.body[i]
  IN  IF i = p \/ has(o, "TilingBackground") \/ ob = NoBody \/ ~o.isActive
      THEN [s |-> s, stop |-> FALSE, tested |-> FALSE, landed |-> FALSE]
      ELSE
        LET isHit == checkCollision(s.body[p], ob)
        IN  IF isHit /\ has(o, "Enemy")
            THEN [s |-> die(s, p), stop |-> TRUE, tested |-> TRUE,
                  landed |-> FALSE]
            ELSE
              LET r  == resolvePlatformCollision(s.body[p], ob,
                                                 getVelocityX(ob))
                  s1 == IF isHit /\ has(o, "Solid")
                        THEN LET sr == [s EXCEPT !.body[p] = r.player,
                                                 !.body[i] = r.platform]
                             IN  IF r.landed
                                 THEN setOnPlatform(sr, p, TRUE, i)
                                 ELSE sr
                        ELSE s
                  s2 == IF has(o, "Enemy") /\ has(o, "Physics")
                        THEN EnemyGround(s1, os, i, 1)
                        ELSE s1
              IN  [s |-> s2, stop |-> FALSE, tested |-> TRUE,
                   landed |-> isHit /\ has(o, "Solid") /\ r.landed]

\* Game::checkCollisions, one turn of the loop over m_gameObjects for the
\* entity i, with the player p.  stop: the pass returned (the player died);
\* tested: checkCollision was called for the pair; landed: the resolution
\* returned true.
CollideWith(s, os, p, i) ==
  LET o == os[i]
      ob == s.body[i]
  IN  IF i = p \/ has(o, "TilingBackground") \/ ob = NoBody
      THEN [s |-> s, stop |-> FALSE, tested |-> FALSE, landed |-> FALSE]
      ELSE
        LET isHit == checkCollision(s.body[p], ob)
        IN  IF isHit /\ has(o, "Enemy")
            THEN [s |-> die(s, p), stop |-> TRUE, tested |-> TRUE,
                  landed |-> FALSE]
            ELSE
              LET r  == resolvePlatformCollision(s.body[p], ob,
                                                 getVelocityX(ob))
                  s1 == IF isHit /\ has(o, "Solid")
                        THEN LET sr == [s EXCEPT !.body[p] = r.player,
                                                 !.body[i] = r.platform]
                             IN  IF r.landed
                                 THEN setOnPlatform(sr, p, TRUE, i)
                                 ELSE sr
                        ELSE s
                  s2 == IF has(o, "Enemy") /\ has(o, "Physics")
                        THEN EnemyGround(s1, os, i, 1)
                        ELSE s1
              IN  [s |-> s2, stop |-> FALSE, tested |-> TRUE,
                   landed |-> isHit /\ has(o, "Solid") /\ r.landed]

\* Game::checkCollisions up to its loop: the guards and the reset of the
\* platform status.
CheckCollisionsBegin ==
  /\ pc = "collide"
  /\ idx = 0
  /\ IF \/ Player = NoObj
        \/ body[Player] = NoBody
        \/ ctl[Player].m_isDead
     THEN /\ pc' = "render"
          /\ idx' = 0
          /\ UNCHANGED ctl
     ELSE /\ ctl' = setOnPlatform(Sim, Player, FALSE, NoObj).ctl
          /\ pc' = pc
          /\ idx' = 1
  /\ UNCHANGED <<objs, body, motion, m_currentKeys, m_previousKeys,
                 viewCenter, frame, frameStart, frameLog>>

\* Game::checkCollisions, one turn of its loop.
CollideStep ==
  /\ pc = "collide"
  /\ idx \in Objs
  /\ LET r == CollideWith(Sim, objs, Player, idx)
     IN  /\ body' = r.s.body
         /\ ctl' = r.s.ctl
         /\ frameLog' =
              [frameLog EXCEPT
                 !.tested = IF r.tested THEN Append(@, idx) ELSE @,
                 !.landed = IF r.landed THEN Append(@, idx) ELSE @,
                 !.died = r.stop]
         /\ IF r.stop \/ idx = Len(objs)
            THEN pc' = "render" /\ idx' = 0
            ELSE pc' = pc /\ idx' = idx + 1
  /\ UNCHANGED <<objs, motion, m_currentKeys, m_previousKeys, viewCenter,
                 frame, frameStart>>

\* Game::render, the entities whose draw is called, in order: the active
\* backgrounds, then the other active entities.
DrawOrder ==
  LET all == [k \in 1 .. Len(objs) |-> k]
  IN  SelectSeq(all, LAMBDA k : objs[k].isActive
                                /\ has(objs[k], "TilingBackground"))
      \o SelectSeq(all, LAMBDA k : objs[k].isActive
                                   /\ ~has(objs[k], "TilingBackground"))

\* Game::render and Engine::endFrame: nothing of the simulation changes.
Render ==
  /\ pc = "render"
  /\ frame < MaxFrames
  /\ frame' = frame + 1
  /\ pc' = "input"
  /\ frameLog' = [frameLog EXCEPT !.drawn = DrawOrder]
  /\ UNCHANGED <<objs, body, motion, ctl, m_currentKeys, m_previousKeys,
                 viewCenter, idx, frameStart>>

----------------------------------------------------------------------------
(* The collision engine on its own: a mover and an obstacle drawn from a   *)
(* bounded grid, tested with checkCollision and, when they overlap (the    *)
(* only case in which Game::checkCollisions calls it), resolved.           *)

VARIABLES mover, obstacle, platformVelocityX, hit, landedOnPlatform, cpc

cvars == <<mover, obstacle, platformVelocityX, hit, landedOnPlatform, cpc>>

\* One GameObject on its own: its component list (the class of each unit
\* and the parent each unit was given), the last call made on it (opc) with
\* its type argument (arg), and what the call returned or did: the handle
\* returned by add, the unit returned by get (0 is null), and the units
\* visited by update or draw, in order.
VARIABLES gameObject, opc, arg, handle, found, visited

ovars == <<gameObject, opc, arg, handle, found, visited>>

vars == <<fvars, cvars, ovars>>

\* The single GameObject while the game or the pair of rectangles runs: not
\* in use.
IdleObject ==
  /\ gameObject = [components |-> <<>>, parents |-> <<>>]
  /\ opc = "idle"
  /\ arg = "none"
  /\ handle = 0
  /\ found = 0
  /\ visited = <<>>

MaxCoord == 3
MaxSize == 2
MaxSpeed == 2

Coords == 0 .. MaxCoord
Sizes == 1 .. MaxSize
PlatformMoves == {0, CarryDeadZone, CarryDeadZone + 1, -(CarryDeadZone + 1)}

\* The pair of rectangles while the game runs: not in use.
IdleCollision ==
  /\ mover = Body(0, 0, 1, 1)
  /\ obstacle = Body(0, 0, 1, 1)
  /\ platformVelocityX = 0
  /\ hit = FALSE
  /\ landedOnPlatform = FALSE
  /\ cpc = "idle"

\* The game while the pair of rectangles is exercised: one empty scene.
IdleFrame ==
  /\ objs = <<>>
  /\ body = <<>>
  /\ motion = <<>>
  /\ ctl = <<>>
  /\ m_currentKeys = {}
  /\ m_previousKeys = {}
  /\ viewCenter = [x |-> 0, y |-> 0]
  /\ pc = "idle"
  /\ idx = 0
  /\ frame = 1
  /\ frameStart = [body |-> <<>>, ctl |-> <<>>, log |-> FrameLog0]
  /\ frameLog = FrameLog0

\* The worked example of the specification: horizontal penetration 3,
\* vertical penetration 10.
ExampleMover ==
  [Body(0, 0, 4, 12) EXCEPT !.velocityX = MaxSpeed, !.velocityY = MaxSpeed]
ExampleObstacle == Body(1, 2, 20, 20)

Movers ==
  { [Body(x, y, w, h) EXCEPT !.velocityX = v, !.velocityY = v] :
      x \in Coords, y \in Coords, w \in Sizes, h \in Sizes,
      v \in {-MaxSpeed, MaxSpeed} }
    \cup {ExampleMover}

Obstacles ==
  { Body(x, y, w, h) : x \in Coords, y \in Coords, w \in Sizes, h \in Sizes }
    \cup {ExampleObstacle}

InitCollision ==
  /\ IdleFrame
  /\ IdleObject
  /\ mover \in Movers
  /\ obstacle \in Obstacles
  /\ platformVelocityX \in PlatformMoves
  /\ hit = FALSE
  /\ landedOnPlatform = FALSE
  /\ cpc = "start"

CheckCall ==
  /\ cpc = "start"
  /\ hit' = checkCollision(mover, obstacle)
  /\ cpc' = "checked"
  /\ UNCHANGED <<mover, obstacle, platformVelocityX, landedOnPlatform>>
  /\ UNCHANGED <<fvars, ovars>>

ResolveCall ==
  /\ cpc = "checked"
  /\ hit
  /\ LET r == resolvePlatformCollision(mover, obstacle, platformVelocityX)
     IN  /\ mover' = r.player
         /\ obstacle' = r.platform
         /\ landedOnPlatform' = r.landed
  /\ cpc' = "resolved"
  /\ UNCHANGED <<platformVelocityX, hit>>
  /\ UNCHANGED <<fvars, ovars>>

NextCollision == CheckCall \/ ResolveCall

SpecCollision == InitCollision /\ [][NextCollision]_vars

----------------------------------------------------------------------------
(* A GameObject on its own: components are added to it, looked up by class *)
(* and traversed.                                                          *)

MaxComponents == 3

\* The classes asked for and added.
Kinds == {"Body", "Solid", "Sprite"}

\* GameObject::add<T>: the unit is given its parent and appended; the
\* handle returned is the new unit (its place in the list).
add(o, kind, this) ==
  [object |-> [components |-> Append(o.components, kind),
               parents |-> Append(o.parents, this)],
   ptr |-> Len(o.components) + 1]

\* GameObject::update and GameObject::draw: the loop over the components,
\* from the k-th on; log is the list of the units visited so far.
RECURSIVE VisitFrom(_, _, _)
VisitFrom(o, k, log) ==
  IF k > Len(o.components)
  THEN log
  ELSE VisitFrom(o, k + 1, Append(log, k))

InitObject ==
  /\ IdleFrame
  /\ IdleCollision
  /\ gameObject = [components |-> <<>>, parents |-> <<>>]
  /\ opc = "new"
  /\ arg = "none"
  /\ handle = 0
  /\ found = 0
  /\ visited = <<>>

AddCall ==
  /\ opc # "idle"
  /\ Len(gameObject.components) < MaxComponents
  /\ \E kind \in Kinds :
       LET r == add(gameObject, kind, "this")
       IN  /\ gameObject' = r.object
           /\ handle' = r.ptr
           /\ arg' = kind
  /\ opc' = "add"
  /\ UNCHANGED <<found, visited>>
  /\ UNCHANGED <<fvars, cvars>>

GetCall ==
  /\ opc # "idle"
  /\ \E kind \in Kinds :
       /\ found' = get(gameObject, kind)
       /\ arg' = kind
  /\ opc' = "get"
  /\ UNCHANGED <<gameObject, handle, visited>>
  /\ UNCHANGED <<fvars, cvars>>

UpdateCall ==
  /\ opc # "idle"
  /\ visited' = VisitFrom(gameObject, 1, <<>>)
  /\ opc' = "update"
  /\ UNCHANGED <<gameObject, arg, handle, found>>
  /\ UNCHANGED <<fvars, cvars>>

DrawCall ==
  /\ opc # "idle"
  /\ visited' = VisitFrom(gameObject, 1, <<>>)
  /\ opc' = "draw"
  /\ UNCHANGED <<gameObject, arg, handle, found>>
  /\ UNCHANGED <<fvars, cvars>>

NextObject == AddCall \/ GetCall \/ UpdateCall \/ DrawCall

SpecObject == InitObject /\ [][NextObject]_vars

----------------------------------------------------------------------------
(* The game. *)

Init == InitFrame /\ IdleCollision /\ IdleObject

Next ==
  \/ InputUpdate /\ UNCHANGED <<cvars, ovars>>
  \/ UpdateObj /\ UNCHANGED <<cvars, ovars>>
  \/ UpdateCamera /\ UNCHANGED <<cvars, ovars>>
  \/ CheckCollisionsBegin /\ UNCHANGED <<cvars, ovars>>
  \/ CollideStep /\ UNCHANGED <<cvars, ovars>>
  \/ Render /\ UNCHANGED <<cvars, ovars>>

Spec == Init /\ [][Next]_vars

----------------------------------------------------------------------------
(* Properties of the collision engine (checked under SpecCollision).       *)

Min(a, b) == IF a < b THEN a ELSE b
Max(a, b) == IF a < b THEN b ELSE a

\* Penetration depths of a into b from each side.
PenLeft(a, b) == (a.x + a.width) - b.x
PenRight(a, b) == (b.x + b.width) - a.x
PenTop(a, b) == (a.y + a.height) - b.y
PenBottom(a, b) == (b.y + b.height) - a.y
MinPenX(a, b) == Min(Abs(PenLeft(a, b)), Abs(PenRight(a, b)))
MinPenY(a, b) == Min(Abs(PenTop(a, b)), Abs(PenBottom(a, b)))

\* A step of the resolution.
Resolving == cpc = "checked" /\ cpc' = "resolved"

\* C1: a pair that overlapped before resolvePlatformCollision does not
\* overlap when it returns, whichever branch was taken and whether or not
\* the rider carry was applied.
C1_ResolvedNoOverlap ==
  cpc = "resolved" => ~checkCollision(mover, obstacle)

C1_Witness ==
  /\ cpc = "resolved"
  /\ hit
  /\ landedOnPlatform
  /\ Abs(platformVelocityX) > CarryDeadZone

\* C2: when resolvePlatformCollision returns true the mover's velocity.y is
\* 0 and its y is obstacle.y - mover.height, and it returns true only when
\* it resolved vertically (the horizontal penetration is not the smaller
\* one) from above (the top penetration is the smaller vertical one).
C2_LandingResult ==
  [][(Resolving /\ landedOnPlatform') =>
       /\ mover'.velocityY = 0
       /\ mover'.y = obstacle'.y - mover'.height
       /\ ~(MinPenX(mover, obstacle) < MinPenY(mover, obstacle))
       /\ Abs(PenTop(mover, obstacle)) < Abs(PenBottom(mover, obstacle))]_vars

C2_Witness ==
  /\ cpc = "resolved"
  /\ landedOnPlatform
  /\ mover.velocityY = 0
  /\ mover.y = obstacle.y - mover.height

\* C3: the resolution is along the axis of least absolute penetration.  If
\* |minOverlapX| < |minOverlapY| it is horizontal: x is snapped flush to the
\* obstacle's near edge, velocity.x is 0, y and velocity.y are unchanged and
\* the result is false.  Otherwise (equal, or Y smaller) it is vertical: y
\* is snapped to the obstacle's top or bottom edge and velocity.y is 0.  The
\* worked example (penetrations 3 and 10) resolves horizontally.
C3_LeastPenetrationAxis ==
  [][Resolving =>
       /\ (MinPenX(mover, obstacle) < MinPenY(mover, obstacle)) =>
            /\ mover'.x = IF Abs(PenLeft(mover, obstacle))
                              < Abs(PenRight(mover, obstacle))
                          THEN obstacle.x - mover.width
                          ELSE obstacle.x + obstacle.width
            /\ mover'.velocityX = 0
            /\ mover'.y = mover.y
            /\ mover'.velocityY = mover.velocityY
            /\ ~landedOnPlatform'
       /\ ~(MinPenX(mover, obstacle) < MinPenY(mover, obstacle)) =>
            /\ mover'.y \in {obstacle.y - mover.height,
                             obstacle.y + obstacle.height}
            /\ mover'.velocityY = 0
            /\ mover'.velocityX = mover.velocityX
       /\ (mover = ExampleMover /\ obstacle = ExampleObstacle) =>
            /\ mover'.x = ExampleObstacle.x - ExampleMover.width
            /\ mover'.velocityX = 0
            /\ mover'.velocityY = ExampleMover.velocityY]_vars

C3_Witness ==
  /\ cpc = "resolved"
  /\ obstacle = ExampleObstacle
  /\ mover = [ExampleMover EXCEPT !.x = -3, !.velocityX = 0]

\* C4: resolvePlatformCollision changes no field of the obstacle, and of
\* the mover only x, y, velocityX and velocityY.
C4_ObstacleUntouched ==
  [][Resolving =>
       /\ obstacle' = obstacle
       /\ mover'.width = mover.width
       /\ mover'.height = mover.height
       /\ mover'.prevX = mover.prevX
       /\ mover'.prevY = mover.prevY]_vars

C4_Witness ==
  /\ cpc = "resolved"
  /\ ~landedOnPlatform
  /\ mover.velocityX = 0
  /\ obstacle \in Obstacles

\* C5: checkCollision is symmetric in its two bodies.
C5_Symmetric ==
  checkCollision(mover, obstacle) = checkCollision(obstacle, mover)

C5_Witness ==
  /\ cpc = "checked"
  /\ hit
  /\ checkCollision(obstacle, mover)
  /\ mover.width # obstacle.width
  /\ mover.x # obstacle.x

\* C6: checkCollision is true exactly when the rectangles' extents share a
\* stretch of positive length on both axes; rectangles that only touch along
\* an edge or at a corner do not collide.
OverlapX(a, b) == Min(a.x + a.width, b.x + b.width) - Max(a.x, b.x)
OverlapY(a, b) == Min(a.y + a.height, b.y + b.height) - Max(a.y, b.y)

C6_StrictOverlap ==
  /\ checkCollision(mover, obstacle) <=>
       (OverlapX(mover, obstacle) > 0 /\ OverlapY(mover, obstacle) > 0)
  /\ (mover.x + mover.width = obstacle.x) => ~checkCollision(mover, obstacle)
  /\ (mover.y + mover.height = obstacle.y) => ~checkCollision(mover, obstacle)
  /\ (cpc = "checked" => hit = checkCollision(mover, obstacle))

C6_Witness ==
  /\ cpc = "checked"
  /\ ~hit
  /\ mover.x + mover.width = obstacle.x
  /\ OverlapY(mover, obstacle) > 0

----------------------------------------------------------------------------
(* Properties of the frame loop (checked under Spec).                      *)

\* The update of the player (an entity with a Body) is the step about to
\* be taken.
PlayerUpdating ==
  /\ pc = "update"
  /\ Player # NoObj
  /\ idx = Player
  /\ objs[Player].isActive
  /\ body[Player] # NoBody

\* A jump key goes down in this frame's snapshot.
JumpPressed ==
  \E k \in JumpKeys : k \in m_currentKeys /\ k \notin m_previousKeys

HorizontalHeld ==
  \E k \in LeftKeys \cup RightKeys : k \in m_currentKeys

\* The velocity.y with which an update returns after a jump impulse: the
\* impulse, then the same update's gravity step.
AfterImpulse == PerFrame(gravity) - V(jumpForce)

\* The player's update applies the jump impulse.
ImpulseApplied ==
  /\ body'[Player].velocityY = AfterImpulse
  /\ body[Player].velocityY # -V(jumpForce)

\* The player's update ends in a fall death (respawn).
FallDeath ==
  body'[Player].y = W(spawnY) /\ body'[Player].x = W(spawnX)
  /\ body'[Player].velocityY = 0

\* C7: a player that starts the frame at rest on a moving platform, with no
\* horizontal input (and no jump), has moved by exactly the platform's
\* displacement D when the frame's collision pass ends, whatever the order
\* of the two entities, and its velocity.x is still 0.
C7_CarriedExactly ==
  (/\ pc = "render"
   /\ Player # NoObj
   /\ frameStart.ctl[Player].m_onPlatform
   /\ frameStart.ctl[Player].m_attachedPlatform # NoObj
   /\ has(objs[frameStart.ctl[Player].m_attachedPlatform], "HorizontalMove")
   /\ frameStart.body[Player].velocityX = 0
   /\ ~HorizontalHeld
   /\ ~JumpPressed)
  => LET a == frameStart.ctl[Player].m_attachedPlatform
     IN  /\ body[Player].x - frameStart.body[Player].x
              = body[a].x - frameStart.body[a].x
         /\ body[Player].velocityX = 0

\* C8: after the complete update of an entity with scripted motion, its
\* Body's previous position is the position it had when that update began.
Scripted(o) ==
  has(o, "Body") /\ (has(o, "Patrol") \/ has(o, "HorizontalMove"))

C8_PrevIsFrameStart ==
  [][(pc = "update" /\ idx \in Objs /\ objs[idx].isActive
      /\ Scripted(objs[idx]))
     => /\ body'[idx].prevX = body[idx].x
        /\ body'[idx].prevY = body[idx].y]_vars

\* C9: the jump impulse is applied only in a frame whose snapshot has a
\* jump key going down; a frame in which every held jump key was already
\* held in the previous frame applies none, grounded or not; a press while
\* grounded applies one.  The previous snapshot is the last frame's.
C9_JumpOnRisingEdge ==
  [][/\ PlayerUpdating =>
          /\ ImpulseApplied => JumpPressed
          /\ ((m_currentKeys \cap JumpKeys) \subseteq m_previousKeys)
               => /\ body'[Player].velocityY # AfterImpulse
                  /\ FallDeath \/ body'[Player].velocityY
                       = body[Player].velocityY + PerFrame(gravity)
          /\ (JumpPressed /\ isGrounded(ctl[Player])) => ImpulseApplied
     /\ (pc = "input") => m_previousKeys' = m_currentKeys]_vars

C9_Witness ==
  /\ pc = "camera"
  /\ Player # NoObj
  /\ frameStart.ctl[Player].m_onPlatform
  /\ "SPACE" \in m_currentKeys \cap m_previousKeys
  /\ body[Player].velocityY = PerFrame(gravity)

\* C10: the controller update performs the jump transition exactly when a
\* jump key was just pressed and (grounded or onPlatform) holds on entry.
\* It then leaves velocity.y at the jump impulse (plus the update's gravity
\* step) and grounded, onPlatform and attachedPlatform cleared.  Otherwise
\* no impulse is applied and attachedPlatform is kept (unless the update
\* ends in a fall death).
C10_JumpTransition ==
  [][PlayerUpdating =>
       IF JumpPressed /\ (ctl[Player].m_grounded \/ ctl[Player].m_onPlatform)
       THEN /\ body'[Player].velocityY = AfterImpulse
            /\ ~ctl'[Player].m_grounded
            /\ ~ctl'[Player].m_onPlatform
            /\ ctl'[Player].m_attachedPlatform = NoObj
       ELSE \/ FallDeath
            \/ /\ body'[Player].velocityY
                    = body[Player].velocityY + PerFrame(gravity)
               /\ ctl'[Player].m_attachedPlatform
                    = ctl[Player].m_attachedPlatform]_vars

C10_Witness ==
  /\ pc = "camera"
  /\ Player # NoObj
  /\ frameStart.ctl[Player].m_attachedPlatform # NoObj
  /\ ctl[Player].m_attachedPlatform = NoObj
  /\ body[Player].velocityY = AfterImpulse

\* C11: whenever a controller operation (update, setOnPlatform, die,
\* respawn) has returned, attachedPlatform is non-null only if onPlatform
\* is true.
C11_AttachedOnlyOnPlatform ==
  \A i \in Objs :
    has(objs[i], "Controller") =>
      (ctl[i].m_attachedPlatform # NoObj => ctl[i].m_onPlatform)

\* The collision pass runs its loop: there is a player with a Body.
PassRuns == Player # NoObj /\ body[Player] # NoBody /\ ~ctl[Player].m_isDead

\* C12: a collision pass resets onPlatform to false and attachedPlatform to
\* null before it tests any entity; each resolution that reports
\* landed-on-top makes the entity the attachedPlatform, sets onPlatform and
\* takes the entity's current x as lastPlatformX; a pass that ends with no
\* landing reported leaves onPlatform false and attachedPlatform null.
C12_PassPlatformStatus ==
  [][(pc = "collide" /\ PassRuns) =>
       /\ idx = 0 => /\ ~ctl'[Player].m_onPlatform
                     /\ ctl'[Player].m_attachedPlatform = NoObj
                     /\ frameLog'.tested = <<>>
       /\ (idx \in Objs /\ Len(frameLog'.landed) > Len(frameLog.landed))
            => /\ has(objs[idx], "Solid")
               /\ ctl'[Player].m_onPlatform
               /\ ctl'[Player].m_attachedPlatform = idx
               /\ ctl'[Player].m_lastPlatformX = body'[idx].x
       /\ (pc' = "render" /\ frameLog'.landed = <<>>)
            => /\ ~ctl'[Player].m_onPlatform
               /\ ctl'[Player].m_attachedPlatform = NoObj]_vars

C12_Witness ==
  /\ pc = "render"
  /\ Player # NoObj
  /\ frameLog.landed # <<>>
  /\ ctl[Player].m_onPlatform
  /\ ctl[Player].m_attachedPlatform = frameLog.landed[Len(frameLog.landed)]
  /\ has(objs[ctl[Player].m_attachedPlatform], "HorizontalMove")
  /\ ctl[Player].m_lastPlatformX = body[ctl[Player].m_attachedPlatform].x
  /\ frame > 1

\* C13: over one update of the player entity (Body, then Controller) the
\* player's x changes by exactly the attached platform's movement since the
\* baseline when it is attached during the movement step, and by exactly
\* velocity.x * dt when it is not (a fall death apart): never by a velocity
\* term and a platform term together, and never by its velocity twice.
C13_OneDisplacement ==
  [][(PlayerUpdating /\ body[Player] # NoBody /\ ~FallDeath) =>
       LET att == IF JumpPressed /\ isGrounded(ctl[Player])
                  THEN NoObj ELSE ctl[Player].m_attachedPlatform
           dx  == body'[Player].x - body[Player].x
       IN  IF att # NoObj
           THEN dx = body[att].x - ctl[Player].m_lastPlatformX
           ELSE dx = body'[Player].velocityX]_vars

\* The player's y after the movement step of the update about to be taken:
\* the Body's step with the stored velocity, then the controller's step with
\* the velocity after the jump impulse (if any) and gravity.
YAfterMovement ==
  LET vy == IF JumpPressed /\ isGrounded(ctl[Player])
            THEN AfterImpulse
            ELSE body[Player].velocityY + PerFrame(gravity)
  IN  body[Player].y + body[Player].velocityY + vy

\* C14: if the player's y after the controller's movement step is strictly
\* greater than deathHeight (800), the update returns with the player at the
\* spawn point (100, 400), velocity (0, 0), attachedPlatform null and the
\* dead flag false.
C14_FallDeathRespawn ==
  [][(PlayerUpdating /\ body[Player] # NoBody /\ ~ctl[Player].m_isDead
      /\ YAfterMovement > W(deathHeight))
     => /\ body'[Player].x = W(spawnX)
        /\ body'[Player].y = W(spawnY)
        /\ body'[Player].velocityX = 0
        /\ body'[Player].velocityY = 0
        /\ ctl'[Player].m_attachedPlatform = NoObj
        /\ ~ctl'[Player].m_isDead]_vars

C14_Witness ==
  /\ Player # NoObj
  /\ body[Player] # NoBody
  /\ Player \in frameLog.updated
  /\ pc \in {"update", "camera"}
  /\ frameStart.body[Player].y > W(deathHeight) - PerFrame(gravity)
  /\ frameStart.body[Player].velocityX # 0
  /\ body[Player].x = W(spawnX)
  /\ body[Player].y = W(spawnY)
  /\ body[Player].velocityX = 0
  /\ body[Player].velocityY = 0

\* The collision pass is about to test the entity idx, a hazard that
\* overlaps the player.
HazardHit ==
  /\ pc = "collide"
  /\ idx \in Objs
  /\ PassRuns
  /\ idx # Player
  /\ ~has(objs[idx], "TilingBackground")
  /\ has(objs[idx], "Enemy")
  /\ body[idx] # NoBody
  /\ checkCollision(body[Player], body[idx])

\* C15: when the collision pass tests a hazard that overlaps the player, the
\* player's Body is reset to the spawn point with zero velocity and
\* attachedPlatform is cleared; nothing else of the player or the hazard
\* changes (no penetration is resolved and no landing is reported, even for
\* a hazard that is also solid), and the pass ends there: no later entity is
\* tested in the frame.
C15_HazardKills ==
  [][HazardHit =>
       /\ body'[Player] = [body[Player] EXCEPT !.x = W(spawnX),
                                               !.y = W(spawnY),
                                               !.velocityX = 0,
                                               !.velocityY = 0]
       /\ \A i \in Objs : i # Player => body'[i] = body[i]
       /\ ctl'[Player] = [ctl[Player] EXCEPT !.m_attachedPlatform = NoObj]
       /\ frameLog'.landed = frameLog.landed
       /\ frameLog'.tested = Append(frameLog.tested, idx)
       /\ pc' = "render"]_vars

C15_Witness ==
  /\ pc = "render"
  /\ Player # NoObj
  /\ frameLog.died
  /\ frameLog.tested # <<>>
  /\ LET e == frameLog.tested[Len(frameLog.tested)]
     IN  /\ has(objs[e], "Enemy")
         /\ has(objs[e], "Solid")
         /\ \E j \in Objs : j > e /\ j # Player /\ has(objs[j], "Solid")
  /\ body[Player].x = W(spawnX)
  /\ body[Player].y = W(spawnY)
  /\ body[Player].velocityY = 0
  /\ ctl[Player].m_attachedPlatform = NoObj

\* The entities the collision pass tested in this frame.
Tested == {frameLog.tested[k] : k \in 1 .. Len(frameLog.tested)}

\* C16: the dead flag is false whenever a controller operation has returned
\* (die() and the fall-death path both clear it before they return), so it
\* is false on every entry to ControllerComponent::update and to the
\* collision pass, and no frame's collision testing is skipped by the dead
\* guard: a pass that did not end in a death has tested every other entity
\* that has a Body.
C16_NeverDeadAcrossSteps ==
  /\ \A i \in Objs : ~ctl[i].m_isDead
  /\ (pc = "render" /\ Player # NoObj /\ body[Player] # NoBody
      /\ ~frameLog.died)
     => \A i \in Objs :
          (i # Player /\ body[i] # NoBody
           /\ ~has(objs[i], "TilingBackground")) => i \in Tested

C16_Witness ==
  /\ pc = "collide"
  /\ idx = 1
  /\ frame > 1
  /\ Player # NoObj
  /\ ~ctl[Player].m_isDead
  /\ frameStart.body[Player].x = W(spawnX)
  /\ frameStart.body[Player].y = W(spawnY)
  /\ frameStart.body[Player].velocityY = 0
  /\ frameStart.ctl[Player].m_attachedPlatform = NoObj
  /\ \E i \in Objs : has(objs[i], "Enemy")

ActiveObjs == {i \in Objs : objs[i].isActive}

\* C17: in every frame, whenever the collision pass tests an entity against
\* the player, the update of every active entity has already run in that
\* frame, and no update runs while the pass is under way.
C17_UpdatesBeforeCollisions ==
  [][Len(frameLog'.tested) > Len(frameLog.tested) =>
       /\ frameLog.updated = ActiveObjs
       /\ frameLog'.updated = frameLog.updated
       /\ pc = "collide"]_vars

C17_Witness ==
  /\ pc = "collide"
  /\ frameLog.tested # <<>>
  /\ frameLog.updated = ActiveObjs
  /\ \E i \in Tested : body[i].x # frameStart.body[i].x

\* C18: when a frame is drawn, the view centre is the centre
\* (x + width/2, y + height/2) of the player's Body as the frame's collision
\* pass left it (the camera is recentred after collision resolution).
C18_CameraSeesResolvedBody ==
  (pc = "render" /\ Player # NoObj /\ body[Player] # NoBody) =>
    /\ viewCenter.x = body[Player].x + body[Player].width \div 2
    /\ viewCenter.y = body[Player].y + body[Player].height \div 2

\* The number of updates the entity i has had since the game began.
UpdatesDone(i) ==
  IF pc # "input" /\ i \in frameLog.updated THEN frame ELSE frame - 1

\* C19: an entity with a Body and a PhysicsComponent (and no collision
\* reset: it is not an enemy) that started with velocity.y = 0 has, after N
\* updates at the fixed dt, velocity.y = N * gravity * dt: the velocity grows
\* by gravity * dt in every update and is never clamped.
C19_PhysicsVelocityLinear ==
  \A i \in Objs :
    (has(objs[i], "Physics") /\ has(objs[i], "Body")
     /\ ~has(objs[i], "Enemy"))
    => body[i].velocityY = UpdatesDone(i) * PerFrame(physicsGravity)

C19_Witness ==
  \E i \in Objs :
    /\ has(objs[i], "Physics")
    /\ has(objs[i], "Body")
    /\ ~has(objs[i], "Enemy")
    /\ UpdatesDone(i) = 3
    /\ body[i].velocityY = 3 * PerFrame(physicsGravity)
    /\ body[i].y > objs[i].body.y

\* C20: a patrol entity (Body and PatrolBehavior, as the scene loader builds
\* it) that starts with x in [leftBound, rightBound - width] has, after any
\* number of frame updates at the fixed dt, x within
\* [leftBound - speed * dt, rightBound - width + speed * dt].
C20_PatrolOvershootBounded ==
  \A i \in Objs :
    (/\ has(objs[i], "Patrol")
     /\ has(objs[i], "Body")
     /\ objs[i].body.x >= objs[i].leftBound
     /\ objs[i].body.x <= objs[i].rightBound - objs[i].body.width)
    => /\ body[i].x >= objs[i].leftBound - objs[i].speed
       /\ body[i].x <= objs[i].rightBound - body[i].width + objs[i].speed

\* C21: a controller update that processes input and does not end in a
\* fall death returns with velocity.x = +speed if a right key is held (also
\* when a left key is held too), -speed if only a left key is held and 0 if
\* neither is, whether the player entered it on a platform or airborne; an
\* update that ends in a fall death returns with velocity.x = 0.
C21_VelocityFromInput ==
  [][(PlayerUpdating /\ body[Player] # NoBody /\ ~ctl[Player].m_isDead) =>
       LET right == m_currentKeys \cap RightKeys # {}
           left  == m_currentKeys \cap LeftKeys # {}
       IN  body'[Player].velocityX =
             IF YAfterMovement > W(deathHeight) THEN 0
             ELSE IF right THEN V(speed)
             ELSE IF left THEN -V(speed)
             ELSE 0]_vars

C21_Witness ==
  /\ Player # NoObj
  /\ Player \in frameLog.updated
  /\ pc \in {"update", "camera"}
  /\ m_currentKeys = {"A", "RIGHT"}
  /\ frameStart.ctl[Player].m_attachedPlatform # NoObj
  /\ frameStart.body[Player].velocityX = -V(speed)
  /\ body[Player].velocityX = V(speed)

Drawn == {frameLog.drawn[k] : k \in 1 .. Len(frameLog.drawn)}

\* C22: an entity whose isActive flag is false is skipped by the update
\* traversal and by both draw traversals: no step of the update phase
\* changes its Body, its behaviour state or its controller state, it is not
\* among the entities drawn, and the entity list stays as it was.
C22_InactiveSkipped ==
  [][/\ pc = "update" =>
          \A i \in Objs :
            ~objs[i].isActive =>
              /\ body'[i] = body[i]
              /\ motion'[i] = motion[i]
              /\ ctl'[i] = ctl[i]
              /\ i \notin frameLog'.updated
     /\ pc = "render" =>
          \A i \in Objs :
            (i \in {frameLog'.drawn[k] : k \in 1 .. Len(frameLog'.drawn)})
              <=> objs[i].isActive
     /\ objs' = objs]_vars

C22_Witness ==
  /\ pc = "input"
  /\ frame = 3
  /\ \E i \in Objs :
       /\ ~objs[i].isActive
       /\ has(objs[i], "Patrol")
       /\ body[i] = objs[i].body
       /\ motion[i] = Motion0
       /\ i \notin Drawn
  /\ \E i \in Objs : objs[i].isActive /\ i \in Drawn /\ body[i] # objs[i].body

BodyDependent == {"Physics", "Controller", "Patrol", "Bounce", "HorizontalMove"}

\* There is no player entity, or the player has no Body.
NoPlayerBody == Player = NoObj \/ body[Player] = NoBody

\* C23: the update of an entity that has Body-dependent behaviours
\* (gravity, controller, patrol, bounce, horizontal shuttle) and no Body
\* changes no state of a behaviour or an entity; and in a frame with no
\* player entity, or with a player that has no Body, the camera step leaves
\* the view alone and the collision pass ends at once, testing nothing and
\* changing nothing.
C23_MissingBodyNoOp ==
  [][/\ (pc = "update" /\ idx \in Objs /\ body[idx] = NoBody
         /\ \E kind \in BodyDependent : has(objs[idx], kind))
        => /\ body' = body
           /\ motion' = motion
           /\ ctl' = ctl
           /\ viewCenter' = viewCenter
     /\ (pc = "camera" /\ NoPlayerBody) => viewCenter' = viewCenter
     /\ (pc = "collide" /\ NoPlayerBody)
        => /\ pc' = "render"
           /\ frameLog'.tested = <<>>
           /\ body' = body
           /\ motion' = motion
           /\ ctl' = ctl
           /\ viewCenter' = viewCenter]_vars

C23_Witness ==
  /\ pc = "render"
  /\ frame = 2
  /\ Player # NoObj
  /\ body[Player] = NoBody
  /\ Player \in frameLog.updated
  /\ m_currentKeys = {"SPACE"}
  /\ ctl[Player] = Controller0
  /\ motion[Player] = Motion0
  /\ viewCenter = [x |-> 0, y |-> 0]
  /\ frameLog.tested = <<>>
  /\ \E i \in Objs : i # Player /\ body[i] # NoBody

GroundedByPass(i) ==
  /\ has(objs[i], "Enemy")
  /\ has(objs[i], "Physics")
  /\ ~has(objs[i], "TilingBackground")
  /\ body[i] # NoBody

BounceFromZeroUpdating ==
  /\ pc = "update"
  /\ idx \in Objs
  /\ objs[idx].isActive
  /\ has(objs[idx], "Bounce")
  /\ has(objs[idx], "Body")
  /\ objs[idx].body.y = 0

\* The Body's y when the bounce behaviour runs: after the Body's own step.
YAtBounce == body[idx].y + body[idx].velocityY

\* C26 (as claimed): for a bounce entity whose initial y is exactly 0, every
\* update takes the baseline anew from the Body's current y.
C26_BaselineRecomputedEveryFrame ==
  [][BounceFromZeroUpdating => motion'[idx].baseY = YAtBounce]_vars

\* C26 (amended): for a bounce entity whose initial y is exactly 0, an update
\* takes the baseline from the Body's current y only while the stored
\* baseline is still 0: the first update stores 0, the second stores the y
\* the Body has by then (twice the first displacement, because the Body's
\* own step has added the first frame's velocity), and every later update
\* keeps that value.
C26_BaselineRecapturedWhileZero ==
  [][BounceFromZeroUpdating =>
       /\ motion'[idx].baseY = IF motion[idx].baseY = 0 THEN YAtBounce
                               ELSE motion[idx].baseY
       /\ motion[idx].time = 0 => motion'[idx].baseY = 0
       /\ motion[idx].time >= 1 =>
            motion'[idx].baseY = 2 * objs[idx].amplitude * SinQuarter(1)]_vars

C26_Witness ==
  \E i \in Objs :
    /\ has(objs[i], "Bounce")
    /\ has(objs[i], "Body")
    /\ objs[i].body.y = 0
    /\ motion[i].time = 4
    /\ body[i].prevY = 0
    /\ motion[i].baseY = 2 * objs[i].amplitude
    /\ body[i].y = motion[i].baseY

----------------------------------------------------------------------------
(* Properties of the component list (checked under SpecObject).            *)

\* C25: add<T> appends the new unit at the end of the component list,
\* parents it to the entity and returns a handle to it; get<T> returns the
\* first unit in insertion order whose class is T (also when several match)
\* and null when none does, and changes nothing; update and draw visit every
\* unit exactly once, in insertion order.
C25_ComponentList ==
  [][/\ opc' = "add" =>
          LET n == Len(gameObject.components)
          IN  /\ Len(gameObject'.components) = n + 1
              /\ SubSeq(gameObject'.components, 1, n) = gameObject.components
              /\ SubSeq(gameObject'.parents, 1, n) = gameObject.parents
              /\ gameObject'.components[n + 1] = arg'
              /\ gameObject'.parents[n + 1] = "this"
              /\ handle' = n + 1
     /\ opc' = "get" =>
          LET cs == gameObject.components
              matches == {k \in 1 .. Len(cs) : cs[k] = arg'}
          IN  /\ gameObject' = gameObject
              /\ matches = {} => found' = 0
              /\ matches # {} => /\ found' \in matches
                                 /\ \A k \in matches : found' <= k
     /\ opc' \in {"update", "draw"} =>
          /\ gameObject' = gameObject
          /\ visited' = [k \in 1 .. Len(gameObject.components) |-> k]]_vars

C25_Witness ==
  /\ opc = "get"
  /\ Len(gameObject.components) = 3
  /\ gameObject.components[1] # arg
  /\ gameObject.components[2] = arg
  /\ gameObject.components[3] = arg
  /\ found = 2
  /\ handle = 3
  /\ visited = <<1, 2>>

----------------------------------------------------------------------------
(* More properties of the frame loop (checked under Spec).                 *)

\* C27: die() clears attachedPlatform and leaves onPlatform as it is.  A
\* collision pass in which the player lands on a solid and is then killed by
\* a hazard later in the list ends with the player at the spawn point with
\* zero velocity, attachedPlatform null and onPlatform true; and in the
\* frame after such a pass a jump key going down applies the jump impulse.
C27_JumpAfterDeathOnPlatform ==
  [][/\ (pc = "collide" /\ pc' = "render" /\ frameLog'.died
         /\ frameLog'.landed # <<>>)
        => /\ body'[Player].x = W(spawnX)
           /\ body'[Player].y = W(spawnY)
           /\ body'[Player].velocityX = 0
           /\ body'[Player].velocityY = 0
           /\ ctl'[Player].m_attachedPlatform = NoObj
           /\ ctl'[Player].m_onPlatform
     /\ (PlayerUpdating /\ frameStart.log.died
         /\ frameStart.log.landed # <<>> /\ JumpPressed)
        => ImpulseApplied]_vars

C27_Witness ==
  /\ Player # NoObj
  /\ Player \in frameLog.updated
  /\ pc \in {"update", "camera"}
  /\ frameStart.log.died
  /\ frameStart.log.landed # <<>>
  /\ frameStart.ctl[Player].m_onPlatform
  /\ frameStart.ctl[Player].m_attachedPlatform = NoObj
  /\ frameStart.body[Player].y = W(spawnY)
  /\ \A i \in Objs :
       (i # Player /\ body[i] # NoBody) =>
         frameStart.body[i].y > W(spawnY) + 2 * body[Player].height
  /\ body[Player].velocityY = AfterImpulse
  /\ body[Player].y = W(spawnY) + AfterImpulse

\* C28: the controller's grounded flag is false in every state, so
\* isGrounded() is onPlatform; every controller update returns with
\* onPlatform false; and an update applies the jump impulse only if the
\* collision pass of the frame before reported a landing (called
\* setOnPlatform(true, ...)), so no two impulses come without a landing
\* between them.
C28_JumpNeedsLanding ==
  [][/\ \A i \in Objs : /\ ~ctl'[i].m_grounded
                        /\ isGrounded(ctl'[i]) = ctl'[i].m_onPlatform
     /\ (PlayerUpdating /\ body[Player] # NoBody) =>
          /\ ~ctl'[Player].m_onPlatform
          /\ ImpulseApplied =>
               /\ frame > 1
               /\ frameStart.log.landed # <<>>
               /\ ctl[Player].m_onPlatform]_vars

C28_Witness ==
  /\ Player # NoObj
  /\ body[Player] # NoBody
  /\ Player \in frameLog.updated
  /\ pc \in {"update", "camera"}
  /\ frame = 3
  /\ JumpPressed
  /\ frameStart.log.landed = <<>>
  /\ ~frameStart.log.died
  /\ frameStart.body[Player].velocityY = AfterImpulse
  /\ body[Player].velocityY = AfterImpulse + PerFrame(gravity)
  /\ ~ctl[Player].m_onPlatform

\* The collision pass is at the entity idx, which is inactive and has a
\* Body.
AtInactiveBody ==
  /\ pc = "collide"
  /\ idx \in Objs
  /\ PassRuns
  /\ idx # Player
  /\ ~objs[idx].isActive
  /\ ~has(objs[idx], "TilingBackground")
  /\ body[idx] # NoBody

\* C29: the collision pass tests an inactive entity that has a Body like any
\* other: an inactive hazard that overlaps the player kills it, an inactive
\* solid that overlaps it is resolved against (the two no longer overlap,
\* and a player that came from above has landed and is attached to it);
\* and the inactive entity's own Body stays as it was constructed.
C29_InactiveStillCollides ==
  [][/\ AtInactiveBody =>
          LET overlap == checkCollision(body[Player], body[idx])
          IN  /\ frameLog'.tested = Append(frameLog.tested, idx)
              /\ (overlap /\ has(objs[idx], "Enemy"))
                   => /\ frameLog'.died
                      /\ body'[Player].x = W(spawnX)
                      /\ body'[Player].y = W(spawnY)
              /\ (overlap /\ has(objs[idx], "Solid")
                  /\ ~has(objs[idx], "Enemy"))
                   => /\ ~checkCollision(body'[Player], body'[idx])
                      /\ (/\ MinPenX(body[Player], body[idx])
                               >= MinPenY(body[Player], body[idx])
                          /\ Abs(PenTop(body[Player], body[idx]))
                               < Abs(PenBottom(body[Player], body[idx])))
                         => /\ ctl'[Player].m_onPlatform
                            /\ ctl'[Player].m_attachedPlatform = idx
                            /\ body'[Player].y
                                 = body[idx].y - body[Player].height
     /\ \A i \in Objs :
          (~objs[i].isActive /\ has(objs[i], "Body"))
            => body'[i] = objs[i].body]_vars

C29_Witness ==
  /\ pc = "render"
  /\ frame = 3
  /\ Player # NoObj
  /\ frameLog.died
  /\ frameLog.landed # <<>>
  /\ LET plat == frameLog.landed[1]
         enemy == frameLog.tested[Len(frameLog.tested)]
     IN  /\ ~objs[plat].isActive
         /\ has(objs[plat], "HorizontalMove")
         /\ body[plat] = objs[plat].body
         /\ ~objs[enemy].isActive
         /\ has(objs[enemy], "Enemy")
         /\ body[enemy] = objs[enemy].body
  /\ body[Player].x = W(spawnX)
  /\ frameStart.body[Player].x # W(spawnX)

\* The solid p is static: nothing moves it.
StaticSolid(p) ==
  /\ p # Player
  /\ has(objs[p], "Solid")
  /\ has(objs[p], "Body")
  /\ ~has(objs[p], "Enemy")
  /\ \A kind \in BodyDependent : ~has(objs[p], kind)

\* The player's Body at the start of the frame, and the same one gravity
\* step further down.
StartBox == frameStart.body[Player]
SunkBox == [StartBox EXCEPT !.y = @ + PerFrame(gravity)]

\* At the start of the frame the player stood on the static solid p with
\* room on both sides, the frame had no input, and no other entity
\* overlaps the place where the player stood.
StoodOn(p) ==
  /\ StaticSolid(p)
  /\ StartBox.y = frameStart.body[p].y - StartBox.height
  /\ StartBox.velocityY = 0
  /\ frameStart.ctl[Player].m_onPlatform
  /\ m_currentKeys = {}
  /\ PenLeft(StartBox, frameStart.body[p]) >= PerFrame(gravity)
  /\ PenRight(StartBox, frameStart.body[p]) >= PerFrame(gravity)
  /\ \A i \in Objs :
       (i # Player /\ i # p /\ body[i] # NoBody) =>
         /\ ~checkCollision(StartBox, frameStart.body[i])
         /\ ~checkCollision(StartBox, body[i])
         /\ ~checkCollision(SunkBox, body[i])

\* C30: standing is stable.  If at the start of a frame the player rests on
\* top of a static solid (y = solid.y - height, velocity.y = 0, onPlatform
\* true) with a horizontal overlap of at least gravity * dt * dt on both
\* sides, the frame has no input and no other entity overlaps the player,
\* then when the frame's collision pass has ended the pass has reported a
\* landing on that solid, onPlatform is true, attachedPlatform is that
\* solid, velocity.y is 0 and x and y are what they were.
C30_StandingIsStable ==
  (pc = "render" /\ Player # NoObj /\ body[Player] # NoBody) =>
    \A p \in Objs :
      StoodOn(p) =>
        /\ \E k \in 1 .. Len(frameLog.landed) : frameLog.landed[k] = p
        /\ ctl[Player].m_onPlatform
        /\ ctl[Player].m_attachedPlatform = p
        /\ body[Player].velocityY = 0
        /\ body[Player].x = StartBox.x
        /\ body[Player].y = StartBox.y

====
